---- MODULE Spec2Model ----
(***************************************************************************)
(* Document-Parser: the orchestrator PhiloDocumentParser (src/app.py), the  *)
(* response envelope (src/utils/response.py, src/utils/process.py) and the  *)
(* HTTP layer (src/api_server.py).                                          *)
(*                                                                          *)
(* Strings are sequences of one-character strings, so that endswith,        *)
(* startswith, os.path and re.sub are computed character by character.      *)
(* The external converter (marker), the captioning model (Florence-2) and   *)
(* the office converter (libreoffice) are inputs: their outcome is chosen   *)
(* by \E in the action that calls them.                                     *)
(***************************************************************************)
EXTENDS Integers, Sequences, FiniteSets, TLC

VARIABLES pc, entry, args, status, exc, resp, rendered, trace, fs, fs0,
          ncalls, subIn, subOut, reqs, running

vars == <<pc, entry, args, status, exc, resp, rendered, trace, fs, fs0,
          ncalls, subIn, subOut, reqs, running>>

(* ------------------------------ bounds ------------------------------- *)
\* most images in one converter output mapping / in one hand-built envelope
MaxImages == 2
\* most segments (plain characters or image references) of a document
MaxSegs == 2
\* most calls (HTTP requests or direct library calls) in one behaviour
MaxCalls == 1
\* HTTP requests the one server process has in flight together
NumReqs == 2

(* ------------------------------ strings ------------------------------ *)
DOT_PDF  == <<".", "p", "d", "f">>
DOT_DOC  == <<".", "d", "o", "c">>
DOT_DOCX == <<".", "d", "o", "c", "x">>
DOT_PPT  == <<".", "p", "p", "t">>
DOT_PPTX == <<".", "p", "p", "t", "x">>
IMAGE_SLASH == <<"i", "m", "a", "g", "e", "/">>
DEFAULT_PROMPT == "<MORE_DETAILED_CAPTION>"
NEWLINE == "\n"
BACKSLASH == "\\"

\* str.endswith
EndsWith(s, suf) ==
  /\ Len(s) >= Len(suf)
  /\ SubSeq(s, Len(s) - Len(suf) + 1, Len(s)) = suf

\* str.startswith
StartsWith(s, pre) ==
  /\ Len(s) >= Len(pre)
  /\ SubSeq(s, 1, Len(pre)) = pre

\* the extension test of parse_doc_ppt and of POST /parse/doc_ppt
IsOfficeName(s) ==
  \/ EndsWith(s, DOT_PPT)
  \/ EndsWith(s, DOT_PPTX)
  \/ EndsWith(s, DOT_DOC)
  \/ EndsWith(s, DOT_DOCX)

\* index of the last occurrence of character c in s, 0 if there is none
LastIndexOf(s, c) ==
  LET I == {i \in 1..Len(s) : s[i] = c}
  IN IF I = {} THEN 0 ELSE CHOOSE i \in I : \A j \in I : j <= i

\* os.path.basename
Basename(p) == SubSeq(p, LastIndexOf(p, "/") + 1, Len(p))

\* os.path.splitext(p)[0]: cut at the last dot of the last component, unless
\* that dot leads the component
SplitextRoot(p) ==
  LET sep == LastIndexOf(p, "/")
      dot == LastIndexOf(p, ".")
  IN IF dot > sep + 1 THEN SubSeq(p, 1, dot - 1) ELSE p

\* os.path.join(dir, name) for a relative name
PathJoin(dir, name) == dir \o <<"/">> \o name

(* --------------------------- Python values --------------------------- *)
\* the content of a bytes object or of a file: a format and the picture in it
Payload(fmt, px) == [fmt |-> fmt, px |-> px]
NoPayload == Payload("NONE", "none")
DirEntry == Payload("DIR", "none")

PyStr(chars)   == [type |-> "str", chars |-> chars, payload |-> NoPayload]
PyBytes(p)     == [type |-> "bytes", chars |-> <<>>, payload |-> p]
PyImage(px)    == [type |-> "PIL", chars |-> <<>>, payload |-> Payload("RAW", px)]
PyNone         == [type |-> "NoneType", chars |-> <<>>, payload |-> NoPayload]
\* base64.b64encode(b).decode("utf-8"): a str over the base64 alphabet (which
\* has no dot and no slash), carrying the bytes it encodes
B64Encode(p)   == [type |-> "str", chars |-> <<"b", "6", "4">>, payload |-> p]
\* base64.b64decode(s): the bytes, or NoPayload for a str that encodes nothing
\* PIL can open
B64Decode(s)   == s.payload

\* PILImage.open(BytesIO(b)) succeeds on the bytes of a picture
CanOpen(p) == p.fmt \in {"PNG", "JPEG"}
\* image.save(f, "PNG"): lossless
SavePng(px) == Payload("PNG", px)
\* (as if the test were `image_name is not None`)
TruthyNotNone(v) == v.type = "str"
\* bool(x) for x a str or None
Truthy(v) == v.type = "str" /\ v.chars # <<>>

(* ---------------------------- file system ---------------------------- *)
\* fs maps each existing path to its content
Exists(f, p) == p \in DOMAIN f
WriteFile(f, p, c) == [q \in (DOMAIN f) \cup {p} |-> IF q = p THEN c ELSE f[q]]
RemoveFile(f, p) == [q \in (DOMAIN f) \ {p} |-> f[q]]

DigitChars == <<"1", "2", "3", "4">>
\* tempfile.NamedTemporaryFile(delete=False, suffix=suf).name of call n: a
\* fresh name of letters, digits and underscores, then the suffix
TempFileName(n, suf) == <<"/", "t", DigitChars[n]>> \o suf
\* tempfile.mkdtemp() of call n
TempDirName(n) == <<"/", "d", DigitChars[n]>>

(* ------------------------------ re.sub ------------------------------- *)
AsciiLetters == {"a", "b", "c", "d", "e", "f", "g", "h", "i", "j", "k", "l", "m",
                 "n", "o", "p", "q", "r", "s", "t", "u", "v", "w", "x", "y", "z"}

\* one atom of a compiled pattern: a literal character, or `.`
Lit(c) == [any |-> FALSE, ch |-> c]
AnyChar == [any |-> TRUE, ch |-> "."]

\* how re compiles one character of an image name put unescaped into the
\* pattern (image names are letters, digits, underscores and dots): a dot is
\* the wildcard, anything else is itself
NameAtom(c) == IF c = "." THEN AnyChar ELSE Lit(c)

NameAtoms(filename) == [i \in 1..Len(filename) |-> NameAtom(filename[i])]

\* pattern = rf"!\[{filename}\]\({filename}\)"
ImagePattern(filename) ==
  <<Lit("!"), Lit("[")>> \o NameAtoms(filename) \o <<Lit("]"), Lit("(")>>
    \o NameAtoms(filename) \o <<Lit(")")>>

\* `.` matches any character but a newline
AtomMatches(a, c) == IF a.any THEN c # NEWLINE ELSE c = a.ch

MatchesAt(pat, s, i) ==
  /\ i + Len(pat) - 1 <= Len(s)
  /\ \A k \in 1..Len(pat) : AtomMatches(pat[k], s[i + k - 1])

\* the replacement template of re.sub, parsed before any matching: a
\* backslash starts an escape; \n is a newline, \\ a backslash, a backslash
\* before another ASCII letter or at the end is an error, and a backslash
\* before any other character stays as it is.  [ok, out]
RECURSIVE ExpandTemplate(_)
ExpandTemplate(t) ==
  IF t = <<>> THEN [ok |-> TRUE, out |-> <<>>]
  ELSE IF Head(t) # BACKSLASH
    THEN LET r == ExpandTemplate(Tail(t))
         IN [ok |-> r.ok, out |-> <<Head(t)>> \o r.out]
  ELSE IF Len(t) = 1 THEN [ok |-> FALSE, out |-> <<>>]
  ELSE LET c == t[2]
           r == ExpandTemplate(SubSeq(t, 3, Len(t)))
       IN IF c = "n" THEN [ok |-> r.ok, out |-> <<NEWLINE>> \o r.out]
          ELSE IF c = BACKSLASH THEN [ok |-> r.ok, out |-> <<BACKSLASH>> \o r.out]
          ELSE IF c \in AsciiLetters THEN [ok |-> FALSE, out |-> <<>>]
          ELSE [ok |-> r.ok, out |-> <<BACKSLASH, c>> \o r.out]

\* leftmost non-overlapping matches from position i on, each replaced by rep
RECURSIVE SubFrom(_, _, _, _)
SubFrom(pat, rep, s, i) ==
  IF i > Len(s) THEN <<>>
  ELSE IF MatchesAt(pat, s, i)
    THEN rep \o SubFrom(pat, rep, s, i + Len(pat))
    ELSE <<s[i]>> \o SubFrom(pat, rep, s, i + 1)

\* re.sub(pattern, repl, string).  [ok, out]; ok = FALSE is re.error
ReSub(pat, repl, s) ==
  LET t == ExpandTemplate(repl)
  IN IF t.ok THEN [ok |-> TRUE, out |-> SubFrom(pat, t.out, s, 1)]
     ELSE [ok |-> FALSE, out |-> s]

(* ------------------------- response envelope ------------------------- *)
\* DocumentResponse(text=..., metadata=...): images and chunks default empty;
\* metadata is a set of <<key, value>> pairs
DocumentResponse(text, metadata) ==
  [text |-> text, images |-> <<>>, metadata |-> metadata, chunks |-> <<>>]

ImageResponse(image, image_name, image_info) ==
  [image |-> image, image_name |-> image_name, image_info |-> image_info]

\* utils.process.encode_image_to_base64: JPEG at quality 85, then base64
EncodeImageToBase64(pil) == B64Encode(Payload("JPEG", pil.payload.px))

\* (as if the new image were put at the front)
PrependImage(images, new) == <<new>> \o images
\* self.images.append(new_image)
AppendImage(images, new) == Append(images, new)

\* DocumentResponse.add_image.  [exc, resp]
AddImage(r, image_name, image_data) ==
  LET decoded == B64Decode(image_data)
      pil == IF image_data.type = "str" THEN PyImage(decoded.px) ELSE image_data
      new == ImageResponse(EncodeImageToBase64(pil), image_name, {})
  IN IF image_data.type = "str" /\ ~CanOpen(decoded)
       THEN [exc |-> "UnidentifiedImageError", resp |-> r]
     ELSE IF image_data.type \notin {"str", "PIL"}
       THEN [exc |-> "UnboundLocalError", resp |-> r]
     ELSE [exc |-> "none",
           resp |-> [r EXCEPT !.images = AppendImage(r.images, new)]]

(* ------------------------------- trace ------------------------------- *)
\* what a call did, in order: orchestrator methods entered, temporary files
\* made, external programs and models run
\* (rc: 0 worked, 1 failed; px: the picture handed to the captioning model)
Event(op, path, prompt, rc, cap, px) ==
  [op |-> op, path |-> path, prompt |-> prompt, rc |-> rc, cap |-> cap, px |-> px]
Enter(op) == Event(op, <<>>, "", 0, <<>>, "none")
Made(op, path) == Event(op, path, "", 0, <<>>, "none")

\* an outcome of the captioning model: it raises, or returns this caption
FlorOk(cap) == [ok |-> TRUE, cap |-> cap]
FlorRaise == [ok |-> FALSE, cap |-> <<>>]

(* ---------------------------- orchestrator --------------------------- *)
\* FlorenceVisionModel.__call__: post_process_generation keys the answer by
\* the task prompt
FlorenceCall(flor, task_prompt) == [key |-> task_prompt, val |-> flor.cap]

\* PhiloDocumentParser.parse_img.  [exc, resp, trace]; resp holds the returned
\* envelope, or nothing when the call raised
ParseImg(image_data, image_name, task_prompt, flor) ==
  LET bytes == IF image_data.type = "str" THEN B64Decode(image_data)
               ELSE image_data.payload
      enter == <<Enter("parse_img")>>
      call == <<Event("florence", <<>>, task_prompt, IF flor.ok THEN 0 ELSE 1,
                      flor.cap, bytes.px)>>
      response == FlorenceCall(flor, task_prompt)
      metadata == IF Truthy(image_name)
                  THEN {<<"image_name", image_name.chars>>} ELSE {}
  IN IF image_data.type \notin {"bytes", "str", "PIL"}
       THEN [exc |-> "ValueError", resp |-> <<>>, trace |-> enter]
     ELSE IF image_data.type # "PIL" /\ ~CanOpen(bytes)
       THEN [exc |-> "UnidentifiedImageError", resp |-> <<>>, trace |-> enter]
     ELSE IF ~flor.ok
       THEN [exc |-> "FlorenceError", resp |-> <<>>, trace |-> enter \o call]
     ELSE IF response.key # task_prompt
       THEN [exc |-> "KeyError", resp |-> <<>>, trace |-> enter \o call]
     ELSE [exc |-> "none",
           resp |-> <<DocumentResponse(response.val, metadata)>>,
           trace |-> enter \o call]

\* the loop of _image_to_text_conversion from image i on; images is the
\* converter's mapping in its order, flors the captioning model's outcome for
\* each image.  [exc, text, trace]
RECURSIVE ImageToTextFrom(_, _, _, _)
ImageToTextFrom(document, images, flors, i) ==
  IF i > Len(images) THEN [exc |-> "none", text |-> document, trace |-> <<>>]
  ELSE LET im == images[i]
           r == ParseImg(PyImage(im.px), PyStr(im.name), DEFAULT_PROMPT, flors[i])
       IN IF r.exc # "none"
            THEN [exc |-> r.exc, text |-> document, trace |-> r.trace]
          ELSE LET sub == ReSub(ImagePattern(im.name), r.resp[1].text, document)
               IN IF ~sub.ok
                    THEN [exc |-> "re.error", text |-> document, trace |-> r.trace]
                  ELSE LET rest == ImageToTextFrom(sub.out, images, flors, i + 1)
                       IN [rest EXCEPT !.trace = r.trace \o @]

ImageToTextConversion(document, images, flors) ==
  ImageToTextFrom(document, images, flors, 1)

\* `return None` stands inside the for loop of _encode_image
ReturnsInsideLoop == TRUE

\* the loop of _encode_image from image i on.  [exc, resp, fs]
RECURSIVE EncodeImageFrom(_, _, _, _)
EncodeImageFrom(images, i, r, f) ==
  IF i > Len(images) THEN [exc |-> "none", resp |-> r, fs |-> f]
  ELSE LET filename == images[i].name
           saved == WriteFile(f, filename, SavePng(images[i].px))
           image_bytes == saved[filename]
           image_base64 == B64Encode(image_bytes)
           added == AddImage(r, filename, image_base64)
           removed == RemoveFile(saved, filename)
       IN IF added.exc # "none"
            THEN [exc |-> added.exc, resp |-> added.resp, fs |-> saved]
          ELSE IF ReturnsInsideLoop
            THEN [exc |-> "none", resp |-> added.resp, fs |-> removed]
          ELSE EncodeImageFrom(images, i + 1, added.resp, removed)

EncodeImage(images, r, f) == EncodeImageFrom(images, 1, r, f)

\* an outcome of the external PDF converter: it raises, or renders this text
\* and this name -> image mapping (a sequence, in the mapping's order)
ConvRaise == [ok |-> FALSE, text |-> <<>>, images |-> <<>>]
ConvOk(text, images) == [ok |-> TRUE, text |-> text, images |-> images]

\* self.converter(input_path) raises on a path that is no file, and may raise
\* on any file
ConverterRaises(conv, f, input_path) ==
  \/ ~Exists(f, input_path)
  \/ f[input_path] = DirEntry
  \/ ~conv.ok

\* the converter call, the captioning pass and the envelope, as parse_pdf and
\* parse_doc_ppt both do them.  ext = [conv, flors, rc]: the outcomes of the
\* converter, of the captioning model per image, of the office converter
RenderAndAssemble(input_path, ext, f) ==
  LET raises == ConverterRaises(ext.conv, f, input_path)
      convEv == <<Event("converter", input_path, "", IF raises THEN 1 ELSE 0,
                        <<>>, "none")>>
      t == ImageToTextConversion(ext.conv.text, ext.conv.images, ext.flors)
      e == EncodeImage(ext.conv.images, DocumentResponse(t.text, {}), f)
  IN IF raises
       THEN [exc |-> "ConverterError", resp |-> <<>>, fs |-> f,
             trace |-> convEv, rendered |-> <<>>]
     ELSE IF t.exc # "none"
       THEN [exc |-> t.exc, resp |-> <<>>, fs |-> f,
             trace |-> convEv \o t.trace, rendered |-> <<ext.conv>>]
     ELSE IF e.exc # "none"
       THEN [exc |-> e.exc, resp |-> <<>>, fs |-> e.fs,
             trace |-> convEv \o t.trace, rendered |-> <<ext.conv>>]
     ELSE [exc |-> "none", resp |-> <<e.resp>>, fs |-> e.fs,
           trace |-> convEv \o t.trace, rendered |-> <<ext.conv>>]

Raised(e, f, tr) ==
  [exc |-> e, resp |-> <<>>, fs |-> f, trace |-> tr, rendered |-> <<>>]

\* (as if the path branch set the flag too)
CleanupAlways(input_data) == TRUE
\* cleanup_tempfile of parse_pdf: False for a path, True for bytes
CleanupTempfile(input_data) ==
  ~(input_data.type = "str" /\ EndsWith(input_data.chars, DOT_PDF))

\* PhiloDocumentParser.parse_pdf, as call number n.
\* [exc, resp, fs, trace, rendered]
ParsePdf(input_data, ext, f, n) ==
  LET isPath == input_data.type = "str" /\ EndsWith(input_data.chars, DOT_PDF)
      isBytes == input_data.type = "bytes"
      temp_pdf_path == TempFileName(n, DOT_PDF)
      input_path == IF isPath THEN input_data.chars ELSE temp_pdf_path
      f1 == IF isPath THEN f ELSE WriteFile(f, temp_pdf_path, input_data.payload)
      pre == <<Enter("parse_pdf")>>
               \o (IF isPath THEN <<>> ELSE <<Made("mktemp", temp_pdf_path)>>)
      r == RenderAndAssemble(input_path, ext, f1)
  IN IF ~isPath /\ ~isBytes
       THEN Raised("UnboundLocalError", f, <<Enter("parse_pdf")>>)
     ELSE IF r.exc # "none" THEN [r EXCEPT !.trace = pre \o @]
     ELSE IF ~CleanupTempfile(input_data) THEN [r EXCEPT !.trace = pre \o @]
     ELSE IF ~Exists(r.fs, input_path)
       THEN Raised("FileNotFoundError", r.fs, pre \o r.trace)
     ELSE [r EXCEPT !.trace = pre \o @, !.fs = RemoveFile(r.fs, input_path)]

\* (as if check=True were left out)
SubprocessRunUnchecked(rc) == FALSE
\* subprocess.run(command, check=True) raises on a non-zero exit
SubprocessRunRaises(rc) == rc # 0

\* PhiloDocumentParser.parse_doc_ppt, as call number n.
\* [exc, resp, fs, trace, rendered]
ParseDocPpt(input_data, ext, f, n) ==
  LET isPath == input_data.type = "str" /\ IsOfficeName(input_data.chars)
      isBytes == input_data.type = "bytes"
      tmp_file == TempFileName(n, <<>>)
      path0 == IF isPath THEN input_data.chars ELSE tmp_file
      f1 == IF isPath THEN f ELSE WriteFile(f, tmp_file, input_data.payload)
      pre == <<Enter("parse_doc_ppt")>>
               \o (IF isPath THEN <<>> ELSE <<Made("mktemp", tmp_file)>>)
      convert == IsOfficeName(path0)
      output_dir == TempDirName(n)
      f2 == WriteFile(f1, output_dir, DirEntry)
      output_pdf_path ==
        PathJoin(output_dir, SplitextRoot(Basename(path0)) \o DOT_PDF)
      written == ext.rc = 0 /\ Exists(f2, path0)
      f3 == IF written THEN WriteFile(f2, output_pdf_path, Payload("PDF", "none"))
            ELSE f2
      office == <<Made("mkdtemp", output_dir),
                  Event("libreoffice", path0, "", ext.rc, <<>>, "none")>>
                  \o (IF written THEN <<Made("office_out", output_pdf_path)>>
                      ELSE <<>>)
      input_path == IF convert THEN output_pdf_path ELSE path0
      before == IF convert THEN pre \o office ELSE pre
      r == RenderAndAssemble(input_path, ext, IF convert THEN f3 ELSE f1)
      differs == input_data.type # "str" \/ input_data.chars # input_path
  IN IF ~isPath /\ ~isBytes
       THEN Raised("UnboundLocalError", f, <<Enter("parse_doc_ppt")>>)
     ELSE IF convert /\ SubprocessRunRaises(ext.rc)
       THEN Raised("CalledProcessError", f3, before)
     ELSE IF r.exc # "none" THEN [r EXCEPT !.trace = before \o @]
     ELSE IF ~differs THEN [r EXCEPT !.trace = before \o @]
     ELSE IF ~Exists(r.fs, input_path)
       THEN Raised("FileNotFoundError", r.fs, before \o r.trace)
     ELSE [r EXCEPT !.trace = before \o @, !.fs = RemoveFile(r.fs, input_path)]

(* ------------------------------ inputs ------------------------------- *)
\* names the converter gives extracted images, and one more name that only
\* documents mention
ImageNames == {<<"a", ".", "p">>, <<"b", ".", "p">>, <<"c", ".", "p">>}
RefNames == ImageNames \cup {<<"a", "x", "p">>}
Pixels == {"p1", "p2"}
Prompts == {DEFAULT_PROMPT, "<OCR>"}
\* a call may leave task_prompt out
ABSENT == "(absent)"
PromptArgs == Prompts \cup {ABSENT}
\* task_prompt: Optional[str] = "<MORE_DETAILED_CAPTION>"
TaskPrompt(p) == IF p = ABSENT THEN DEFAULT_PROMPT ELSE p
Captions == {<<"c">>, <<BACKSLASH, "n">>, <<BACKSLASH, BACKSLASH>>, <<BACKSLASH, "c">>}
\* whole calls get a plain caption or none; the other captions are tried on
\* the substitution alone
FlorOutcomes == {FlorOk(<<"c">>), FlorRaise}

\* the markdown image reference ![n](m)
ImageRef(n, m) == <<"!", "[">> \o n \o <<"]", "(">> \o m \o <<")">>

Segments ==
  {<<"x">>} \cup {ImageRef(n, n) : n \in RefNames}
    \cup {ImageRef(<<"a", ".", "p">>, <<"b", ".", "p">>)}

RECURSIVE Flatten(_)
Flatten(ss) == IF ss = <<>> THEN <<>> ELSE Head(ss) \o Flatten(Tail(ss))

\* documents of at most k segments
DocsOf(k) == {Flatten(ss) : ss \in UNION {[1..j -> Segments] : j \in 0..k}}
\* the documents the converter renders in whole calls
MainDocs == {<<>>, <<"x">>} \cup {ImageRef(n, n) : n \in {<<"a", ".", "p">>, <<"a", "x", "p">>}}

IsInjective(s) == \A i, j \in 1..Len(s) : s[i] = s[j] => i = j

\* the converter's mappings: at most MaxImages images under distinct names
NameSeqs ==
  {s \in UNION {[1..k -> ImageNames] : k \in 0..MaxImages} : IsInjective(s)}
Mappings ==
  UNION {{[i \in 1..Len(s) |-> [name |-> s[i], px |-> p[i]]] :
            p \in [1..Len(s) -> Pixels]} : s \in NameSeqs}
ConvOutcomes == {ConvRaise} \cup {ConvOk(d, m) : d \in MainDocs, m \in Mappings}

External(conv, flors, rc) == [conv |-> conv, flors |-> flors, rc |-> rc]

N_PDF   == <<"a">> \o DOT_PDF
N_DOC   == <<"a">> \o DOT_DOC
N_DOCX  == <<"a">> \o DOT_DOCX
N_PPT   == <<"a">> \o DOT_PPT
N_PPTX  == <<"a">> \o DOT_PPTX
N_PNG   == <<"a", ".", "p", "n", "g">>
N_UPPER == <<"a", ".", "P", "D", "F">>
N_BARE  == <<"p", "d", "f">>
UploadNames == {N_PDF, N_DOC, N_DOCX, N_PPT, N_PPTX, N_PNG, N_UPPER, N_BARE, <<>>}

CT_PNG   == IMAGE_SLASH \o <<"p", "n", "g">>
CT_TEXT  == <<"t", "e", "x", "t", "/", "p", "l", "a", "i", "n">>
CT_IMAGE == <<"i", "m", "a", "g", "e">>
\* UploadFile.content_type: the part's Content-Type header, None without one
ContentTypes == {PyNone, PyStr(CT_PNG), PyStr(CT_TEXT), PyStr(CT_IMAGE), PyStr(<<>>)}

PdfBody == Payload("PDF", "none")
OfficeBody == Payload("OFFICE", "none")
JunkBody == Payload("JUNK", "none")
PngBody == Payload("PNG", "p1")

\* the files of the callers of the library
CallerPdf == <<"i">> \o DOT_PDF
CallerDoc == <<"i">> \o DOT_DOCX
CallerPpt == <<"s", "/", "k", ".", "v">> \o DOT_PPT
MissingPdf == <<"m">> \o DOT_PDF
InitFs ==
  [q \in {CallerPdf, CallerDoc, CallerPpt} |->
     IF q = CallerPdf THEN PdfBody ELSE OfficeBody]

DirectPdfInputs ==
  {PyStr(CallerPdf), PyStr(MissingPdf), PyStr(CallerDoc), PyBytes(PdfBody), PyNone}
DirectDocInputs ==
  {PyStr(CallerDoc), PyStr(CallerPpt), PyStr(CallerPdf), PyBytes(OfficeBody), PyNone}
DirectImgInputs ==
  {PyBytes(PngBody), PyBytes(JunkBody), B64Encode(PngBody), PyStr(N_PNG),
   PyImage("p2"), PyNone}
ImgNames == {PyNone, PyStr(<<>>), PyStr(N_PNG)}

(* ------------------------------- state ------------------------------- *)
\* the arguments of the call in progress
Args(filename, ctype, data, name, prompt) ==
  [filename |-> filename, ctype |-> ctype, data |-> data, name |-> name,
   prompt |-> prompt]
NoArgs == Args(<<>>, PyNone, PyNone, PyNone, "")
NoSub == [document |-> <<>>, name |-> <<>>, cap |-> <<>>, ok |-> TRUE]

\* the requests in flight together, and what the handler of one holds: where
\* it is, its endpoint, its answer's status, its temporary file, the
\* converter's mapping, the loop index of _encode_image, the bytes read back
\* from the scratch file and the envelope built so far
Reqs == 1..NumReqs
ReqState(p, kind, st, temp, images, i, bytes, r) ==
  [pc |-> p, kind |-> kind, status |-> st, temp |-> temp, images |-> images,
   i |-> i, bytes |-> bytes, resp |-> r]
NoReq == ReqState("new", "none", 0, <<>>, <<>>, 0, NoPayload, <<>>)
\* the handler is over: its answer has gone out
Gone(kind, st) == ReqState("gone", kind, st, <<>>, <<>>, 0, NoPayload, <<>>)

Init ==
  /\ pc = "idle"
  /\ entry = "none"
  /\ args = NoArgs
  /\ status = 0
  /\ exc = "none"
  /\ resp = <<>>
  /\ rendered = <<>>
  /\ trace = <<>>
  /\ fs = InitFs
  /\ fs0 = InitFs
  /\ ncalls = 0
  /\ subIn = NoSub
  /\ subOut = NoSub
  /\ reqs = [r \in Reqs |-> NoReq]
  /\ running = 0

\* no call is in progress and another may begin
CanBegin == pc = "idle" /\ ncalls < MaxCalls

\* a call begins: it gets the next call number and sees the files as they are
Begin(e, a) ==
  /\ CanBegin
  /\ ncalls' = ncalls + 1
  /\ entry' = e
  /\ args' = a
  /\ fs0' = fs
  /\ UNCHANGED <<subIn, subOut, reqs, running>>

\* the call ends with result r of the orchestrator; http says whether the
\* caller is an endpoint (an uncaught exception is a 500 there)
Finish(r, http) ==
  /\ pc' = "done"
  /\ exc' = r.exc
  /\ resp' = r.resp
  /\ rendered' = r.rendered
  /\ trace' = r.trace
  /\ fs' = r.fs
  /\ status' = IF ~http THEN 0 ELSE IF r.exc = "none" THEN 200 ELSE 500

\* raise HTTPException(status_code=400, ...)
Reject ==
  /\ pc' = "done"
  /\ exc' = "HTTPException"
  /\ status' = 400
  /\ UNCHANGED <<resp, rendered, trace, fs>>

\* the handler goes on to `await file.read()`
AwaitRead ==
  /\ pc' = "reading"
  /\ UNCHANGED <<status, exc, resp, rendered, trace, fs>>

Resume(e) ==
  /\ pc = "reading"
  /\ entry = e
  /\ UNCHANGED <<entry, args, fs0, ncalls, subIn, subOut, reqs, running>>

(* ---------------------------- HTTP layer ----------------------------- *)
\* (as if the dot were missing from the suffix)
PdfNameAcceptedNoDot(filename) == EndsWith(filename, <<"p", "d", "f">>)
\* file.filename.endswith(".pdf")
PdfNameAccepted(filename) == EndsWith(filename, DOT_PDF)

\* POST /parse/pdf up to the await
HttpParsePdfCheck ==
  /\ CanBegin
  /\ \E filename \in UploadNames, body \in {PdfBody, JunkBody} :
    /\ Begin("http_pdf", Args(filename, PyNone, PyBytes(body), PyNone, ""))
    /\ IF ~PdfNameAccepted(filename) THEN Reject ELSE AwaitRead

\* POST /parse/pdf after the await
HttpParsePdfRun ==
  /\ Resume("http_pdf")
  /\ \E conv \in ConvOutcomes :
       \E flors \in [1..Len(conv.images) -> FlorOutcomes] :
         Finish(ParsePdf(args.data, External(conv, flors, 0), fs, ncalls), TRUE)

\* POST /parse/image up to the await; content_type.startswith on None is an
\* AttributeError
HttpParseImageCheck ==
  /\ CanBegin
  /\ \E ctype \in ContentTypes, filename \in {N_PNG, <<>>}, prompt \in PromptArgs,
     body \in {PngBody, JunkBody} :
    /\ Begin("http_image",
             Args(filename, ctype, PyBytes(body), PyStr(filename), prompt))
    /\ IF ctype.type # "str"
         THEN Finish(Raised("AttributeError", fs, <<>>), TRUE)
       ELSE IF ~StartsWith(ctype.chars, IMAGE_SLASH) THEN Reject
       ELSE AwaitRead

\* POST /parse/image after the await
HttpParseImageRun ==
  /\ Resume("http_image")
  /\ \E flor \in FlorOutcomes :
       LET r == ParseImg(args.data, args.name, TaskPrompt(args.prompt), flor)
       IN Finish([exc |-> r.exc, resp |-> r.resp, fs |-> fs, trace |-> r.trace,
                  rendered |-> <<>>], TRUE)

\* POST /parse/doc_ppt up to the await
HttpParseDocPptCheck ==
  /\ CanBegin
  /\ \E filename \in UploadNames, body \in {OfficeBody, JunkBody} :
    /\ Begin("http_doc", Args(filename, PyNone, PyBytes(body), PyNone, ""))
    /\ IF ~IsOfficeName(filename) THEN Reject ELSE AwaitRead

\* POST /parse/doc_ppt after the await
HttpParseDocPptRun ==
  /\ Resume("http_doc")
  /\ \E conv \in ConvOutcomes, rc \in {0, 1} :
       \E flors \in [1..Len(conv.images) -> FlorOutcomes] :
         Finish(ParseDocPpt(args.data, External(conv, flors, rc), fs, ncalls),
                TRUE)

(* --------------------------- library calls --------------------------- *)
\* document_parser.parse_pdf(input_data)
CallParsePdf ==
  /\ CanBegin
  /\ \E input_data \in DirectPdfInputs, conv \in ConvOutcomes :
    \E flors \in [1..Len(conv.images) -> FlorOutcomes] :
      /\ Begin("parse_pdf", Args(<<>>, PyNone, input_data, PyNone, ""))
      /\ Finish(ParsePdf(input_data, External(conv, flors, 0), fs, ncalls + 1),
                FALSE)

\* document_parser.parse_doc_ppt(input_data)
CallParseDocPpt ==
  /\ CanBegin
  /\ \E input_data \in DirectDocInputs, conv \in ConvOutcomes, rc \in {0, 1} :
    \E flors \in [1..Len(conv.images) -> FlorOutcomes] :
      /\ Begin("parse_doc_ppt", Args(<<>>, PyNone, input_data, PyNone, ""))
      /\ Finish(ParseDocPpt(input_data, External(conv, flors, rc), fs,
                            ncalls + 1), FALSE)

\* document_parser.parse_img(image_data, image_name, task_prompt)
CallParseImg ==
  /\ CanBegin
  /\ \E image_data \in DirectImgInputs, image_name \in ImgNames,
        prompt \in PromptArgs, flor \in FlorOutcomes :
    /\ Begin("parse_img", Args(<<>>, PyNone, image_data, image_name, prompt))
    /\ LET r == ParseImg(image_data, image_name, TaskPrompt(prompt), flor)
       IN Finish([exc |-> r.exc, resp |-> r.resp, fs |-> fs, trace |-> r.trace,
                  rendered |-> <<>>], FALSE)

\* a caller makes an envelope of its own: DocumentResponse()
NewEnvelope ==
  /\ Begin("envelope", NoArgs)
  /\ pc' = "building"
  /\ resp' = <<DocumentResponse(<<>>, {})>>
  /\ UNCHANGED <<status, exc, rendered, trace, fs>>

\* ... and adds an image to it: envelope.add_image(image_name, image_data)
EnvelopeAddImage ==
  /\ pc = "building"
  /\ Len(resp[1].images) < MaxImages
  /\ \E image_name \in ImageNames, px \in Pixels :
       \E image_data \in {PyImage(px), B64Encode(SavePng(px))} :
         LET a == AddImage(resp[1], image_name, image_data)
         IN /\ a.exc = "none"
            /\ resp' = <<a.resp>>
  /\ UNCHANGED <<pc, entry, args, status, exc, rendered, trace, fs, fs0, ncalls,
                 subIn, subOut, reqs, running>>

\* the caller has its answer; the files stay as the call left them
Return ==
  /\ pc \in {"done", "building"}
  /\ pc' = "idle"
  /\ entry' = "none"
  /\ args' = NoArgs
  /\ status' = 0
  /\ exc' = "none"
  /\ resp' = <<>>
  /\ rendered' = <<>>
  /\ trace' = <<>>
  /\ UNCHANGED <<fs, fs0, ncalls, subIn, subOut, reqs, running>>

Next ==
  \/ HttpParsePdfCheck
  \/ HttpParsePdfRun
  \/ HttpParseImageCheck
  \/ HttpParseImageRun
  \/ HttpParseDocPptCheck
  \/ HttpParseDocPptRun
  \/ CallParsePdf
  \/ CallParseDocPpt
  \/ CallParseImg
  \/ NewEnvelope
  \/ EnvelopeAddImage
  \/ Return

Spec == Init /\ [][Next]_vars

(* --------------- placeholder substitution on its own ----------------- *)
\* a document, one image of the mapping and the caption the model gives it
InitSub ==
  /\ pc = "sub"
  /\ entry = "none"
  /\ args = NoArgs
  /\ status = 0
  /\ exc = "none"
  /\ resp = <<>>
  /\ rendered = <<>>
  /\ trace = <<>>
  /\ fs = InitFs
  /\ fs0 = InitFs
  /\ ncalls = 0
  /\ \E d \in DocsOf(MaxSegs), n \in ImageNames, c \in Captions :
       subIn = [document |-> d, name |-> n, cap |-> c, ok |-> TRUE]
  /\ subOut = NoSub
  /\ reqs = [r \in Reqs |-> NoReq]
  /\ running = 0

\* _image_to_text_conversion(document, {name: image})
Substitute ==
  /\ pc = "sub"
  /\ \E px \in Pixels :
       LET r == ImageToTextConversion(subIn.document,
                                      <<[name |-> subIn.name, px |-> px]>>,
                                      <<FlorOk(subIn.cap)>>)
       IN subOut' = [document |-> r.text, name |-> subIn.name,
                     cap |-> subIn.cap, ok |-> r.exc = "none"]
  /\ pc' = "subdone"
  /\ UNCHANGED <<entry, args, status, exc, resp, rendered, trace, fs, fs0,
                 ncalls, subIn, reqs, running>>

NextSub == Substitute

SpecSub == InitSub /\ [][NextSub]_vars

(* ------------- concurrent requests in one server process ------------ *)
\* (as if the handlers were plain `def` functions, which the framework runs
\* in its thread pool: a handler can then be preempted anywhere)
YieldsAnywhere(p) == TRUE
\* the handlers are `async def` and call the orchestrator without await: the
\* event loop gets control back only at `await file.read()` and when the
\* handler is over
Yields(p) == p \in {"await", "gone"}

\* the event loop is free, or request r has it
CanRun(r) == running = 0 \/ running = r

\* request r goes on as q; it keeps the event loop unless it yields there
Goes(r, q) ==
  /\ reqs' = [reqs EXCEPT ![r] = q]
  /\ running' = IF Yields(q.pc) THEN 0 ELSE r
  /\ UNCHANGED <<pc, entry, args, status, exc, resp, rendered, trace, fs0,
                 ncalls, subIn, subOut>>

\* what the converter makes of the documents sent together: one text, any
\* mapping
ConcConvOutcomes ==
  {ConvRaise} \cup {ConvOk(ImageRef(<<"a", ".", "p">>, <<"a", ".", "p">>), m) :
                      m \in Mappings}

\* the image _encode_image is at, and its scratch file
CurImage(q) == q.images[q.i]

\* a request arrives and its handler runs up to the await: the three
\* endpoints' checks
ConcArrive ==
  \E r \in Reqs :
    /\ CanRun(r)
    /\ reqs[r].pc = "new"
    /\ fs' = fs
    /\ \/ \E filename \in {N_PDF, N_PNG} :
            Goes(r, IF PdfNameAccepted(filename)
                    THEN [NoReq EXCEPT !.pc = "await", !.kind = "http_pdf"]
                    ELSE Gone("http_pdf", 400))
       \/ \E filename \in {N_DOCX, N_PNG} :
            Goes(r, IF IsOfficeName(filename)
                    THEN [NoReq EXCEPT !.pc = "await", !.kind = "http_doc"]
                    ELSE Gone("http_doc", 400))
       \/ \E ctype \in {PyStr(CT_PNG), PyStr(CT_TEXT)} :
            Goes(r, IF StartsWith(ctype.chars, IMAGE_SLASH)
                    THEN [NoReq EXCEPT !.pc = "await", !.kind = "http_image"]
                    ELSE Gone("http_image", 400))

\* POST /parse/image after the await: parse_img, and the answer
ConcParseImage ==
  \E r \in Reqs, flor \in FlorOutcomes :
    /\ CanRun(r)
    /\ reqs[r].pc = "await"
    /\ reqs[r].kind = "http_image"
    /\ fs' = fs
    /\ LET a == ParseImg(PyBytes(PngBody), PyStr(N_PNG), DEFAULT_PROMPT, flor)
       IN Goes(r, Gone("http_image", IF a.exc = "none" THEN 200 ELSE 500))

\* POST /parse/pdf and /parse/doc_ppt after the await, up to the call of
\* _encode_image: the body goes to a temporary file (which for doc_ppt has
\* no suffix, so that no office conversion follows), the converter and the
\* captioning pass run, the envelope is made
ConcRender ==
  \E r \in Reqs, conv \in ConcConvOutcomes, flor \in FlorOutcomes :
    /\ CanRun(r)
    /\ reqs[r].pc = "await"
    /\ reqs[r].kind \in {"http_pdf", "http_doc"}
    /\ LET kind == reqs[r].kind
           temp == TempFileName(r, IF kind = "http_pdf" THEN DOT_PDF ELSE <<>>)
           f1 == WriteFile(fs, temp,
                           IF kind = "http_pdf" THEN PdfBody ELSE OfficeBody)
           t == ImageToTextConversion(conv.text, conv.images,
                                      [k \in 1..Len(conv.images) |-> flor])
       IN /\ ~IsOfficeName(temp)
          /\ fs' = f1
          /\ IF ConverterRaises(conv, f1, temp) \/ t.exc # "none"
               THEN Goes(r, Gone(kind, 500))
             ELSE Goes(r, ReqState(IF conv.images = <<>> THEN "cleanup" ELSE "save",
                                   kind, 0, temp, conv.images, 1, NoPayload,
                                   <<DocumentResponse(t.text, {})>>))

\* _encode_image: image.save(filename, "PNG")
ConcSave ==
  \E r \in Reqs :
    /\ CanRun(r)
    /\ reqs[r].pc = "save"
    /\ fs' = WriteFile(fs, CurImage(reqs[r]).name, SavePng(CurImage(reqs[r]).px))
    /\ Goes(r, [reqs[r] EXCEPT !.pc = "read"])

\* _encode_image: open(filename, "rb") and f.read()
ConcRead ==
  \E r \in Reqs :
    /\ CanRun(r)
    /\ reqs[r].pc = "read"
    /\ fs' = fs
    /\ IF ~Exists(fs, CurImage(reqs[r]).name)
         THEN Goes(r, Gone(reqs[r].kind, 500))
       ELSE Goes(r, [reqs[r] EXCEPT !.pc = "add",
                                    !.bytes = fs[CurImage(reqs[r]).name]])

\* _encode_image: base64.b64encode and pdf_result.add_image
ConcAdd ==
  \E r \in Reqs :
    /\ CanRun(r)
    /\ reqs[r].pc = "add"
    /\ fs' = fs
    /\ LET a == AddImage(reqs[r].resp[1], CurImage(reqs[r]).name,
                         B64Encode(reqs[r].bytes))
       IN IF a.exc # "none" THEN Goes(r, Gone(reqs[r].kind, 500))
          ELSE Goes(r, [reqs[r] EXCEPT !.pc = "remove", !.resp = <<a.resp>>])

\* _encode_image: os.remove(filename), then the return inside the loop
ConcRemove ==
  \E r \in Reqs :
    /\ CanRun(r)
    /\ reqs[r].pc = "remove"
    /\ IF ~Exists(fs, CurImage(reqs[r]).name)
         THEN fs' = fs /\ Goes(r, Gone(reqs[r].kind, 500))
       ELSE /\ fs' = RemoveFile(fs, CurImage(reqs[r]).name)
            /\ IF ReturnsInsideLoop \/ reqs[r].i = Len(reqs[r].images)
                 THEN Goes(r, [reqs[r] EXCEPT !.pc = "cleanup"])
               ELSE Goes(r, [reqs[r] EXCEPT !.pc = "save", !.i = @ + 1])

\* the temporary file of the body is removed and the envelope is the answer
ConcCleanup ==
  \E r \in Reqs :
    /\ CanRun(r)
    /\ reqs[r].pc = "cleanup"
    /\ IF ~Exists(fs, reqs[r].temp)
         THEN fs' = fs /\ Goes(r, Gone(reqs[r].kind, 500))
       ELSE /\ fs' = RemoveFile(fs, reqs[r].temp)
            /\ Goes(r, Gone(reqs[r].kind, 200))

NextConc ==
  \/ ConcArrive
  \/ ConcParseImage
  \/ ConcRender
  \/ ConcSave
  \/ ConcRead
  \/ ConcAdd
  \/ ConcRemove
  \/ ConcCleanup

SpecConc == Init /\ [][NextConc]_vars

(* ------------------------------ claims ------------------------------- *)
PdfEntries == {"http_pdf", "parse_pdf"}
DocEntries == {"http_doc", "parse_doc_ppt"}
Returned == pc = "done" /\ exc = "none"
EventsOf(ops) == SelectSeq(trace, LAMBDA e : e.op \in ops)
ImageNamesOf(images) == [i \in 1..Len(images) |-> images[i].image_name]
MappingNames(images) == [i \in 1..Len(images) |-> images[i].name]

\* C1: the envelope returned by parse_pdf / parse_doc_ppt has exactly one
\* entry per image of the converter's mapping, each under that image's name.
C1_OneEntryPerImage ==
  (Returned /\ entry \in PdfEntries \cup DocEntries)
    => ImageNamesOf(resp[1].images) = MappingNames(rendered[1].images)

\* a is b with some elements left out, the rest in b's order
IsSubsequence(a, b) ==
  \E f \in [1..Len(a) -> 1..Len(b)] :
    /\ \A i \in 1..Len(a) : a[i] = b[f[i]]
    /\ \A i, j \in 1..Len(a) : i < j => f[i] < f[j]

\* the images of a PDF response are images of the mapping, in its order
C2_MappingOrder ==
  (Returned /\ entry \in PdfEntries)
    => IsSubsequence(ImageNamesOf(resp[1].images),
                     MappingNames(rendered[1].images))

\* while an envelope is in use, a step leaves its images alone or adds one
\* at the end
C2_AppendOnly ==
  (pc = "building" /\ pc' = "building")
    => \/ resp'[1].images = resp[1].images
       \/ /\ Len(resp'[1].images) = Len(resp[1].images) + 1
          /\ SubSeq(resp'[1].images, 1, Len(resp[1].images)) = resp[1].images

RECURSIVE LiteralReplaceFrom(_, _, _, _)
LiteralReplaceFrom(s, needle, rep, i) ==
  IF i > Len(s) THEN <<>>
  ELSE IF i + Len(needle) - 1 <= Len(s) /\ SubSeq(s, i, i + Len(needle) - 1) = needle
    THEN rep \o LiteralReplaceFrom(s, needle, rep, i + Len(needle))
    ELSE <<s[i]>> \o LiteralReplaceFrom(s, needle, rep, i + 1)

\* C3: placeholder substitution is literal: the result is the document with
\* every verbatim ![X](X) replaced by exactly the caption, nothing else
\* changed, whatever characters X and the caption hold.
C3_LiteralSubstitution ==
  pc = "subdone"
    => /\ subOut.ok
       /\ subOut.document =
            LiteralReplaceFrom(subIn.document, ImageRef(subIn.name, subIn.name),
                               subIn.cap, 1)

\* C4: POST /parse/pdf with a filename that does not end in .pdf is a 400
\* whatever the body, and neither parse_pdf nor the converter runs for it.
C4_NonPdfRejected ==
  (entry = "http_pdf" /\ ~EndsWith(args.filename, DOT_PDF))
    => /\ pc = "done"
       /\ status = 400
       /\ resp = <<>>
       /\ trace = <<>>
       /\ fs = fs0

\* a valid PDF body under a name in upper case was turned away
C4_Witness ==
  /\ entry = "http_pdf"
  /\ args.filename = N_UPPER
  /\ args.data = PyBytes(PdfBody)
  /\ status = 400

IsImageType(ctype) == ctype.type = "str" /\ StartsWith(ctype.chars, IMAGE_SLASH)

\* C5: POST /parse/image with a content type that is no image type, a missing
\* content type included, is a 400 whatever the body, and the captioning
\* adapter is not invoked.
C5_NonImageRejected ==
  (entry = "http_image" /\ pc = "done" /\ ~IsImageType(args.ctype))
    => /\ status = 400
       /\ EventsOf({"florence", "parse_img"}) = <<>>

\* the call's input was accepted by parse_doc_ppt or by POST /parse/doc_ppt
DocAccepted ==
  \/ entry = "http_doc" /\ status # 400
  \/ /\ entry = "parse_doc_ppt"
     /\ \/ args.data.type = "bytes"
        \/ args.data.type = "str" /\ IsOfficeName(args.data.chars)

\* C6: on the DOC/PPT path the office converter runs before the PDF
\* converter, and the PDF converter is given the intermediate PDF the office
\* converter wrote, never the original file.
C6_OfficeBeforeConverter ==
  (pc = "done" /\ DocAccepted)
    => \A i \in 1..Len(trace) :
         trace[i].op = "converter"
           => \E j \in 1..(i - 1) :
                /\ trace[j].op = "office_out"
                /\ trace[j].path = trace[i].path

\* C7: when the office converter exits non-zero the request ends in an error
\* (a 500 at the HTTP layer), no envelope is returned, and neither the PDF
\* converter nor the captioning adapter runs after the failure.
C7_OfficeFailureFatal ==
  pc = "done"
    => \A i \in 1..Len(trace) :
         (trace[i].op = "libreoffice" /\ trace[i].rc # 0)
           => /\ exc # "none"
              /\ resp = <<>>
              /\ entry = "http_doc" => status = 500
              /\ \A j \in (i + 1)..Len(trace) :
                   trace[j].op \notin {"converter", "florence", "parse_img"}

\* a parse_doc_ppt call whose office conversion failed
C7_Witness ==
  /\ pc = "done"
  /\ entry = "parse_doc_ppt"
  /\ exc = "CalledProcessError"
  /\ \E i \in 1..Len(trace) : trace[i].op = "libreoffice" /\ trace[i].rc = 1

\* the image parse_img was given can be decoded
ImgDecodable(d) ==
  \/ d.type = "PIL"
  \/ d.type = "bytes" /\ d.payload.fmt \in {"PNG", "JPEG"}
  \/ d.type = "str" /\ d.payload.fmt \in {"PNG", "JPEG"}

\* parse_img was entered by the call in progress
ImgCalled ==
  /\ pc = "done"
  /\ entry \in {"parse_img", "http_image"}
  /\ trace # <<>>

\* C8: parse_img on image bytes, a base64 string or a decoded image invokes
\* the captioning adapter exactly once with the given (or default) prompt;
\* the returned envelope has the adapter's text for that prompt, no images,
\* no chunks, and metadata {image_name: name} exactly when a non-empty name
\* was given.  Any other input type raises without invoking the adapter.
C8_ParseImg ==
  ImgCalled =>
    LET calls == EventsOf({"florence"})
        prompt == IF args.prompt = "(absent)" THEN "<MORE_DETAILED_CAPTION>"
                  ELSE args.prompt
        named == args.name.type = "str" /\ Len(args.name.chars) > 0
    IN /\ ImgDecodable(args.data)
           => /\ Len(calls) = 1
              /\ calls[1].prompt = prompt
              /\ exc = "none"
                   => resp = <<[text |-> calls[1].cap,
                                images |-> <<>>,
                                chunks |-> <<>>,
                                metadata |-> IF named
                                  THEN {<<"image_name", args.name.chars>>}
                                  ELSE {}]>>
       /\ args.data.type \notin {"bytes", "str", "PIL"}
           => /\ exc # "none"
              /\ resp = <<>>
              /\ calls = <<>>

\* parse_img returned an envelope for a base64 string under a name
C8_Witness ==
  /\ ImgCalled
  /\ entry = "parse_img"
  /\ args.data = B64Encode(PngBody)
  /\ args.name = PyStr(N_PNG)
  /\ exc = "none"
  /\ resp[1].metadata # {}

\* C9: parse_pdf removes its input file only if it made it: a PDF passed by
\* path is still there, unchanged, after the call (returned or raised), and
\* after a call on bytes has returned the temporary PDF it made is gone.
C9_PdfCleanup ==
  (pc = "done" /\ entry \in PdfEntries)
    => /\ (args.data.type = "str" /\ Exists(fs0, args.data.chars))
            => /\ Exists(fs, args.data.chars)
               /\ fs[args.data.chars] = fs0[args.data.chars]
       /\ exc = "none"
            => \A i \in 1..Len(trace) :
                 trace[i].op = "mktemp" => ~Exists(fs, trace[i].path)

\* parse_pdf returned for the caller's own PDF, after handling an image
C9_Witness ==
  /\ Returned
  /\ entry = "parse_pdf"
  /\ args.data = PyStr(CallerPdf)
  /\ Len(resp[1].images) >= 1

\* C10: after parse_doc_ppt has returned, every temporary file and directory
\* the call made is gone, and a file passed by path is still there.
C10_DocCleanup ==
  (Returned /\ entry \in DocEntries)
    => /\ \A i \in 1..Len(trace) :
            trace[i].op \in {"mktemp", "mkdtemp", "office_out"}
              => ~Exists(fs, trace[i].path)
       /\ args.data.type = "str" => Exists(fs, args.data.chars)

\* request r has written its scratch file and not yet removed it
InSection(r) == reqs[r].pc \in {"read", "add", "remove"}

\* every image of the envelope r has built is a picture of r's own document
OwnImages(r) ==
  \A k \in 1..Len(reqs[r].resp[1].images) :
    \E j \in 1..Len(reqs[r].images) :
      /\ reqs[r].images[j].name = reqs[r].resp[1].images[k].image_name
      /\ reqs[r].resp[1].images[k].image =
           [type |-> "str", chars |-> <<"b", "6", "4">>,
            payload |-> [fmt |-> "JPEG", px |-> reqs[r].images[j].px]]

\* C11: under any interleaving of the requests of one server process, from
\* the moment _encode_image has written the scratch file named after an image
\* until it removes it, no other request writes, reads or removes that file
\* (no other request is between its own write and remove of the same name,
\* and the file still holds what was written); so the image stored in a
\* response is a picture of that request's own document.
C11_ScratchFileExclusive ==
  /\ \A r1, r2 \in Reqs :
       (r1 # r2 /\ InSection(r1) /\ InSection(r2))
         => CurImage(reqs[r1]).name # CurImage(reqs[r2]).name
  /\ \A r \in Reqs :
       InSection(r)
         => /\ Exists(fs, CurImage(reqs[r]).name)
            /\ fs[CurImage(reqs[r]).name] =
                 [fmt |-> "PNG", px |-> CurImage(reqs[r]).px]
  /\ \A r \in Reqs :
       reqs[r].pc \in {"remove", "cleanup"} => OwnImages(r)

\* one request has stored its picture of an image and is about to remove the
\* scratch file, while another request is in flight, waiting for its body
C11_Witness ==
  \E r1, r2 \in Reqs :
    /\ r1 # r2
    /\ reqs[r1].pc = "remove"
    /\ Len(reqs[r1].resp[1].images) = 1
    /\ reqs[r2].pc = "await"
    /\ reqs[r2].kind \in {"http_pdf", "http_doc"}

====
